---------------------------- MODULE Spec2Model ----------------------------
(***************************************************************************)
(* Model of smfc.GpuZone (src/src/smfc/gpuzone.py): the construction of    *)
(* the zone from the gpu_device_ids= option and the cached temperature     *)
(* read _get_nth_temp().                                                   *)
(*                                                                         *)
(* A Python str is a sequence of one-character strings.  A Python float    *)
(* holding a temperature is a pair <<whole degrees, thousandths>>, which   *)
(* is exact for every value float(raw) / 1000 with raw an integer.         *)
(***************************************************************************)
EXTENDS Integers, Sequences, FiniteSets, TLC

(***************************************************************************)
(* Bounds of the model.                                                    *)
(***************************************************************************)
MaxCfgLen == 4
MaxTime == 3
MaxPolling == 2
MaxFiles == 3

(***************************************************************************)
(* Program constants.                                                      *)
(***************************************************************************)
MinGpuId == 0
MaxGpuId == 100
MilliPerDegree == 1000

(***************************************************************************)
(* Python str helpers.                                                     *)
(***************************************************************************)
Digits == {"0", "1", "2", "3", "4", "5", "6", "7", "8", "9"}

DigitVal(c) ==
    CASE c = "0" -> 0 [] c = "1" -> 1 [] c = "2" -> 2 [] c = "3" -> 3
      [] c = "4" -> 4 [] c = "5" -> 5 [] c = "6" -> 6 [] c = "7" -> 7
      [] c = "8" -> 8 [] c = "9" -> 9

RECURSIVE LStrip(_)
LStrip(s) == IF s # <<>> /\ Head(s) = " " THEN LStrip(Tail(s)) ELSE s

RECURSIVE RStrip(_)
RStrip(s) ==
    IF s # <<>> /\ s[Len(s)] = " " THEN RStrip(SubSeq(s, 1, Len(s) - 1)) ELSE s

\* str.strip()
Strip(s) == RStrip(LStrip(s))

\* The option value used as read, runs of spaces kept.
NoSqueeze(s) == s

\* re.sub(" +", " ", s): every run of spaces becomes one space.
RECURSIVE SqueezeSpaces(_)
SqueezeSpaces(s) ==
    IF s = <<>> THEN <<>>
    ELSE IF Head(s) = " " /\ Len(s) > 1 /\ s[2] = " " THEN SqueezeSpaces(Tail(s))
    ELSE <<Head(s)>> \o SqueezeSpaces(Tail(s))

Contains(s, c) == \E k \in 1..Len(s) : s[k] = c

\* str.split(sep) with an explicit separator: empty fields are kept.
RECURSIVE Split(_, _)
Split(s, sep) ==
    IF ~Contains(s, sep) THEN <<s>>
    ELSE LET k == CHOOSE j \in 1..Len(s) :
                    s[j] = sep /\ \A i \in 1..(j - 1) : s[i] # sep
         IN  <<SubSeq(s, 1, k - 1)>> \o Split(SubSeq(s, k + 1, Len(s)), sep)

\* The digits of a numeric literal: surrounding blanks and one sign removed.
NumBody(t) ==
    LET u == Strip(t)
    IN  IF u # <<>> /\ Head(u) \in {"-", "+"} THEN Tail(u) ELSE u

NumSign(t) ==
    LET u == Strip(t) IN IF u # <<>> /\ Head(u) = "-" THEN -1 ELSE 1

RECURSIVE DecVal(_)
DecVal(b) ==
    IF b = <<>> THEN 0
    ELSE 10 * DecVal(SubSeq(b, 1, Len(b) - 1)) + DigitVal(b[Len(b)])

\* int(s) succeeds (otherwise it raises ValueError).
IsInt(t) ==
    LET b == NumBody(t) IN b # <<>> /\ \A k \in 1..Len(b) : b[k] \in Digits

\* int(s)
ParseInt(t) == NumSign(t) * DecVal(NumBody(t))


(***************************************************************************)
(* Python float helpers: a temperature in degrees is <<whole, thousandths>>*)
(***************************************************************************)
\* float(s) succeeds.  The sensor contents of this model are digit strings
\* and junk; on those float() accepts exactly what int() accepts.
IsFloat(t) == IsInt(t)

\* float(s) / 1000
Div1000(t) ==
    LET v == ParseInt(t) IN <<v \div MilliPerDegree, v % MilliPerDegree>>

FloatLess(a, b) == a[1] < b[1] \/ (a[1] = b[1] /\ a[2] < b[2])

\* max(temp_list) of a non-empty list.
RECURSIVE MaxFloat(_)
MaxFloat(l) ==
    IF Len(l) = 1 THEN l[1]
    ELSE LET m == MaxFloat(Tail(l))
         IN  IF FloatLess(l[1], m) THEN m ELSE l[1]

Zero == <<0, 0>>
NoValue == <<>>

(***************************************************************************)
(* State.                                                                  *)
(***************************************************************************)
VARIABLES
    state,            \* UNVALIDATED, ACTIVE or FAILED (construction)
    cfg,              \* the gpu_device_ids= option of the configuration
    polling,          \* the polling= option, self.polling of the base class
    error,            \* the exception __init__ raised, "" if none
    base_count,       \* {count passed to FanController.__init__}, {} before
    gpu_device_ids,   \* self.gpu_device_ids
    temp_retrieved,   \* self.temp_retrieved
    gpu_temperature,  \* self.gpu_temperature
    now,              \* time.monotonic()
    grep_installed,   \* whether subprocess.run finds the grep command
    last,             \* the last call of _get_nth_temp and what it did
    lastTry,          \* per position: {time of the last glob}, {} if none
    lastRead,         \* per position: {time of the last completed grep run}
    lastGood          \* per position: {the last acquisition that stored a
                      \* value: [t, value]}, {} if none

vars == <<state, cfg, polling, error, base_count, gpu_device_ids,
          temp_retrieved, gpu_temperature, now, grep_installed, last,
          lastTry, lastRead, lastGood>>

NotInit == {}
Never == {}

(***************************************************************************)
(* GpuZone.__init__                                                        *)
(***************************************************************************)
\* gid in range(0, 101)
InRangeNoLower(gid) == gid <= MaxGpuId

InRange(gid) == gid >= MinGpuId /\ gid <= MaxGpuId

\* "," if "," in gpu_id_list else " "
Delimiter(gpu_id_list) == IF Contains(gpu_id_list, ",") THEN "," ELSE " "

\* The tokens the list comprehension hands to int().
Tokens(s) ==
    LET gpu_id_list == SqueezeSpaces(Strip(s))
    IN  Split(gpu_id_list, Delimiter(gpu_id_list))

\* A conversion that skips the tokens int() rejects instead of raising.
GpuZoneInitLenient(s) ==
    LET tokens == SelectSeq(Tokens(s), LAMBDA t : IsInt(t))
        ids == [k \in 1..Len(tokens) |-> ParseInt(tokens[k])]
    IN  IF \E k \in 1..Len(ids) : ~InRange(ids[k])
        THEN [raised |-> "ValueError", ids |-> ids, base |-> FALSE]
        ELSE [raised |-> "", ids |-> ids, base |-> TRUE]

\* What __init__ leaves behind for the option value s: the exception it
\* raises ("" if none), the list assigned to self.gpu_device_ids (none is
\* assigned when int() raises) and whether super().__init__() was reached.
GpuZoneInit(s) ==
    LET tokens == Tokens(s)
    IN  IF \E k \in 1..Len(tokens) : ~IsInt(tokens[k])
        THEN [raised |-> "ValueError", ids |-> <<>>, base |-> FALSE]
        ELSE LET ids == [k \in 1..Len(tokens) |-> ParseInt(tokens[k])]
             IN  IF \E k \in 1..Len(ids) : ~InRange(ids[k])
                 THEN [raised |-> "ValueError", ids |-> ids, base |-> FALSE]
                 ELSE [raised |-> "", ids |-> ids, base |-> TRUE]

\* [0 for _ in range(count - 1)]
TimesInitShort(count) == [k \in 1..(count - 1) |-> 0]

\* self.temp_retrieved = [0 for _ in range(count)]
TimesInit(count) == [k \in 1..count |-> 0]

\* self.gpu_temperature = [0 for _ in range(count)]
TempsInit(count) == [k \in 1..count |-> Zero]

NoCall ==
    [op |-> "none", index |-> 0, files |-> <<>>,
     outcome |-> "none", value |-> NoValue, globs |-> 0, runs |-> 0,
     gapTry |-> Never, gapRead |-> Never]

\* The state __init__ leaves for option value s and polling interval p.
Constructed(s, p) ==
    LET r == GpuZoneInit(s)
        count == Len(r.ids)
    IN  /\ cfg' = s
        /\ polling' = p
        /\ error' = r.raised
        /\ gpu_device_ids' = r.ids
        /\ state' = IF r.raised = "" THEN "ACTIVE" ELSE "FAILED"
        /\ temp_retrieved' = IF r.base THEN TimesInit(count) ELSE <<>>
        /\ gpu_temperature' = IF r.base THEN TempsInit(count) ELSE <<>>
        /\ base_count' = IF r.base THEN {count} ELSE NotInit
        /\ lastTry' = IF r.base THEN [k \in 1..count |-> Never] ELSE <<>>
        /\ lastRead' = IF r.base THEN [k \in 1..count |-> Never] ELSE <<>>
        /\ lastGood' = IF r.base THEN [k \in 1..count |-> Never] ELSE <<>>

Construct ==
    /\ state = "UNVALIDATED"
    /\ Constructed(cfg, polling)
    /\ UNCHANGED <<now, grep_installed, last>>

(***************************************************************************)
(* Construction from every short option value.                             *)
(***************************************************************************)
CfgAlphabet == {"0", "1", ",", " ", "-", "x"}

CfgStrings == UNION {[1..n -> CfgAlphabet] : n \in 0..MaxCfgLen}

InitCfg ==
    /\ state = "UNVALIDATED"
    /\ cfg \in CfgStrings
    /\ polling \in 1..MaxPolling
    /\ error = ""
    /\ base_count = NotInit
    /\ gpu_device_ids = <<>>
    /\ temp_retrieved = <<>>
    /\ gpu_temperature = <<>>
    /\ now = 0
    /\ grep_installed \in BOOLEAN
    /\ last = NoCall
    /\ lastTry = <<>>
    /\ lastRead = <<>>
    /\ lastGood = <<>>

NextCfg == Construct

SpecCfg == InitCfg /\ [][NextCfg]_vars

(***************************************************************************)
(* GpuZone._get_nth_temp                                                   *)
(***************************************************************************)
\* A Python list index: the 1-based position it selects in a list of n
\* elements, 0 when the subscript raises IndexError.
Position(index, n) ==
    IF index >= 0 /\ index < n THEN index + 1
    ELSE IF index < 0 /\ index + n >= 0 THEN index + n + 1
    ELSE 0

\* current_time >= self.polling
ExpiredNoTimestamp(pos) == now >= polling

\* (current_time - self.temp_retrieved[index]) > self.polling
ExpiredStrict(pos) == (now - temp_retrieved[pos]) > polling

\* (current_time - self.temp_retrieved[index]) >= self.polling
Expired(pos) == (now - temp_retrieved[pos]) >= polling

\* if not paths: raise FileNotFoundError
FoundUnchecked(paths) == TRUE

Found(paths) == paths # <<>>

\* Standard output of  grep . path1 .. pathk : one line per non-empty
\* line of a file, prefixed "path:" only when several files are named.
\* files[k] is the one line the k-th temp*_input file holds (<<>>: none).
RECURSIVE GrepOut(_, _)
GrepOut(files, several) ==
    IF files = <<>> THEN <<>>
    ELSE (IF Head(files) = <<>> THEN <<>>
          ELSE IF several THEN << <<"path", ":">> \o Head(files) >>
          ELSE <<Head(files)>>)
         \o GrepOut(Tail(files), several)

\* r.stdout.splitlines() of subprocess.run(["grep", ".", *paths])
RunGrep(files) == GrepOut(files, Len(files) > 1)

\* float(temp.split(":")[1]) / 1000 for one line: the exception or the value.
ParseLine(temp) ==
    LET fields == Split(temp, ":")
    IN  IF Len(fields) < 2 THEN [raised |-> "IndexError", value |-> NoValue]
        ELSE IF ~IsFloat(fields[2])
             THEN [raised |-> "ValueError", value |-> NoValue]
             ELSE [raised |-> "", value |-> Div1000(fields[2])]

\* [float(temp.split(":")[1]) / 1000 for temp in temp_list]: the list, or
\* the exception of the first line that raises.
RECURSIVE ParseLines(_)
ParseLines(temp_list) ==
    IF temp_list = <<>> THEN [raised |-> "", value |-> <<>>]
    ELSE LET h == ParseLine(Head(temp_list))
         IN  IF h.raised # "" THEN h
             ELSE LET t == ParseLines(Tail(temp_list))
                  IN  IF t.raised # "" THEN t
                      ELSE [raised |-> "", value |-> <<h.value>> \o t.value]

\* temp_list[0]
AggregateFirst(temp_list) ==
    IF temp_list = <<>> THEN [raised |-> "ValueError", value |-> NoValue]
    ELSE [raised |-> "", value |-> temp_list[1]]

\* max(temp_list); ValueError on an empty list.
Aggregate(temp_list) ==
    IF temp_list = <<>> THEN [raised |-> "ValueError", value |-> NoValue]
    ELSE [raised |-> "", value |-> MaxFloat(temp_list)]

\* Lines 135-138: parse the output lines, then take the maximum.
ParseOutput(stdout) ==
    LET parsed == ParseLines(stdout)
    IN  IF parsed.raised # "" THEN parsed ELSE Aggregate(parsed.value)

\* self.temp_retrieved[index] = current_time only once parsing succeeded
StampsOnSuccess(ran, res) == ran /\ res.raised = ""

\* self.temp_retrieved[index] = current_time is reached as soon as
\* subprocess.run() has returned, before the output is parsed.
Stamps(ran, res) == ran

\* try/except that swallows the failure and falls through to the return
OutcomeFallback(ran, res) == "return"

\* How the call ends: FileNotFoundError re-raised at line 132, the exception
\* of line 136 or 138 propagating, or the return of line 140.
Outcome(ran, res) ==
    IF ~ran THEN "FileNotFoundError"
    ELSE IF res.raised # "" THEN res.raised
    ELSE "return"

\* self.temp_retrieved[self.gpu_device_ids[index]] = ...
SlotByDevice(pos) == gpu_device_ids[pos] + 1

\* The element the stores of lines 134 and 138 subscript: [index], the one
\* line 119 read.
Slot(pos) == pos

\* The call _get_nth_temp(index) at time now, when the glob of the device's
\* hwmon directory matches the files `files` (consulted only if the cached
\* value has expired).
GetNthTemp(index, files) ==
    LET pos == Position(index, Len(temp_retrieved))
        ran == Found(files) /\ grep_installed
    IN  \E res \in {ParseOutput(RunGrep(files))} :
        /\ state = "ACTIVE"
        /\ UNCHANGED <<state, cfg, polling, error, base_count,
                       gpu_device_ids, now, grep_installed>>
        /\ IF pos = 0
           THEN \* self.temp_retrieved[index] raises IndexError
                /\ last' = [NoCall EXCEPT !.op = "read", !.index = index,
                                          !.outcome = "IndexError"]
                /\ UNCHANGED <<temp_retrieved, gpu_temperature,
                               lastTry, lastRead, lastGood>>
           ELSE IF ~Expired(pos)
           THEN \* the cached value
                /\ last' = [NoCall EXCEPT !.op = "read", !.index = index,
                                          !.outcome = "return",
                                          !.value = gpu_temperature[pos]]
                /\ UNCHANGED <<temp_retrieved, gpu_temperature,
                               lastTry, lastRead, lastGood>>
           ELSE /\ temp_retrieved' =
                       IF Stamps(ran, res)
                       THEN [temp_retrieved EXCEPT ![Slot(pos)] = now]
                       ELSE temp_retrieved
                /\ gpu_temperature' =
                       IF ran /\ res.raised = ""
                       THEN [gpu_temperature EXCEPT ![Slot(pos)] = res.value]
                       ELSE gpu_temperature
                /\ last' =
                       [op |-> "read", index |-> index, files |-> files,
                        outcome |-> Outcome(ran, res),
                        value |-> IF Outcome(ran, res) = "return"
                                  THEN gpu_temperature'[pos]
                                  ELSE NoValue,
                        globs |-> 1,
                        runs |-> IF Found(files) THEN 1 ELSE 0,
                        gapTry |-> {now - t : t \in lastTry[pos]},
                        gapRead |-> {now - t : t \in lastRead[pos]}]
                /\ lastTry' = [lastTry EXCEPT ![pos] = {now}]
                /\ lastRead' = IF ran THEN [lastRead EXCEPT ![pos] = {now}]
                               ELSE lastRead
                /\ lastGood' =
                       IF ran /\ res.raised = ""
                       THEN [lastGood EXCEPT
                                ![pos] = {[t |-> now, value |-> res.value]}]
                       ELSE lastGood

\* time.monotonic() advances between calls.
Tick ==
    /\ now < MaxTime
    /\ now' = now + 1
    /\ UNCHANGED <<state, cfg, polling, error, base_count, gpu_device_ids,
                   temp_retrieved, gpu_temperature, grep_installed, last,
                   lastTry, lastRead, lastGood>>

(***************************************************************************)
(* Sensor files: the one line each temp*_input file holds.                 *)
(***************************************************************************)
S60000 == <<"6", "0", "0", "0", "0">>
S52000 == <<"5", "2", "0", "0", "0">>
S45000 == <<"4", "5", "0", "0", "0">>
S38000 == <<"3", "8", "0", "0", "0">>
Junk == <<"a", "b", "c">>
Empty == <<>>

\* The files whose content is a number, and the milli-degrees it denotes.
Numeric == {S60000, S52000, S45000, S38000}

RawValue(c) ==
    CASE c = S60000 -> 60000 [] c = S52000 -> 52000
      [] c = S45000 -> 45000 [] c = S38000 -> 38000

(***************************************************************************)
(* The zone in use: constructed from a valid option value, then read at    *)
(* arbitrary times while the sensors come, go and misbehave.               *)
(***************************************************************************)
SampleCfgs == { <<"0">>, <<"0", ",", "1">>, <<"1", " ", "1">> }

SampleFiles ==
    { <<>>, <<S60000>>, <<S60000, S60000>>, <<S45000, S52000, S38000>>,
      <<Junk, S52000>>, <<Empty, Empty>> }

Indexes == (0 - Len(temp_retrieved) - 1) .. Len(temp_retrieved)

\* The state after GpuZone(log, ipmi, config) returned, at clock value t.
Started(cfgs, clocks, greps) ==
    \E s \in cfgs, p \in 1..MaxPolling :
        LET r == GpuZoneInit(s)
            count == Len(r.ids)
        IN  /\ r.raised = ""
            /\ state = "ACTIVE"
            /\ cfg = s
            /\ polling = p
            /\ error = ""
            /\ base_count = {count}
            /\ gpu_device_ids = r.ids
            /\ temp_retrieved = TimesInit(count)
            /\ gpu_temperature = TempsInit(count)
            /\ now \in clocks
            /\ grep_installed \in greps
            /\ last = NoCall
            /\ lastTry = [k \in 1..count |-> Never]
            /\ lastRead = [k \in 1..count |-> Never]
            /\ lastGood = [k \in 1..count |-> Never]

Init == Started(SampleCfgs, {0}, BOOLEAN)

\* The sensor files a call may meet: they matter, and are looked at, only
\* if the call reaches the glob.
Offered(index, lists) ==
    LET pos == Position(index, Len(temp_retrieved))
    IN  IF pos = 0 \/ ~Expired(pos) THEN { <<>> } ELSE lists

Next ==
    \/ \E index \in Indexes :
           \E files \in Offered(index, SampleFiles) : GetNthTemp(index, files)
    \/ Tick

Spec == Init /\ [][Next]_vars

(***************************************************************************)
(* One acquisition from every short list of sensor files: a zone with one  *)
(* device, read at a clock value at which every polling interval has       *)
(* expired.                                                                *)
(***************************************************************************)
Contents == {S60000, S52000, S45000, S38000, Junk, Empty}

FileLists == UNION {[1..n -> Contents] : n \in 0..MaxFiles}

InitAcq == Started({ <<"0">> }, {MaxPolling}, {TRUE})

NextAcq ==
    \E index \in Indexes :
        \E files \in Offered(index, FileLists) : GetNthTemp(index, files)

SpecAcq == InitAcq /\ [][NextAcq]_vars

(***************************************************************************)
(* The end-to-end scenario: gpu_device_ids=0,1 and polling=2 on a host     *)
(* where each device exposes one temp*_input file holding 60000.           *)
(***************************************************************************)
InitE2E == Started({ <<"0", ",", "1">> }, {0}, {TRUE}) /\ polling = 2

NextE2E ==
    \/ \E index \in Indexes : GetNthTemp(index, <<S60000>>)
    \/ Tick

SpecE2E == InitE2E /\ [][NextE2E]_vars

(***************************************************************************)
(* Properties.                                                             *)
(***************************************************************************)
\* The cache position the last call addressed (0: none).
LastPos == Position(last.index, Len(temp_retrieved))

LastRead == last.op = "read"

\* This step is a call _get_nth_temp(i).
ReadOf(i) == now' = now /\ last'.op = "read" /\ last'.index = i

ValidIndexes == 0..(Len(temp_retrieved) - 1)

\* The milli-degree values of the files that hold a number.
NumericRaw(files) ==
    {RawValue(files[k]) : k \in {j \in 1..Len(files) : files[j] \in Numeric}}

\* The float v is (the largest of raws) / 1000.
IsMaxOver1000(v, raws) ==
    /\ v \in Int \X (0..(MilliPerDegree - 1))
    /\ (v[1] * MilliPerDegree + v[2]) \in raws
    /\ \A r \in raws : r <= v[1] * MilliPerDegree + v[2]

\* C1 (cache hit): a read of sensor index i issued less than polling after
\* temp_retrieved[i] globs nothing, runs nothing, returns gpu_temperature[i]
\* and leaves temp_retrieved and gpu_temperature as they were.
C1_CacheHit ==
    [][\A i \in ValidIndexes :
          (ReadOf(i) /\ now - temp_retrieved[i + 1] < polling)
          => /\ last'.globs = 0
             /\ last'.runs = 0
             /\ last'.outcome = "return"
             /\ last'.value = gpu_temperature[i + 1]
             /\ temp_retrieved' = temp_retrieved
             /\ gpu_temperature' = gpu_temperature]_vars

\* A read returned, without I/O, a value an earlier acquisition cached.
C1_Witness ==
    /\ LastRead /\ last.index \in ValidIndexes
    /\ last.globs = 0 /\ last.outcome = "return"
    /\ last.value # Zero
    /\ now > temp_retrieved[LastPos]

\* C2 (cache refresh): a read of sensor index i issued polling or more after
\* temp_retrieved[i] makes one acquisition; when the read returns, the entry
\* is (now, maximum of the sources / 1000) and that value is returned.
C2_CacheRefresh ==
    [][\A i \in ValidIndexes :
          (ReadOf(i) /\ now - temp_retrieved[i + 1] >= polling)
          => /\ last'.globs = 1
             /\ last'.outcome = "return"
                => /\ temp_retrieved'[i + 1] = now
                   /\ gpu_temperature'[i + 1] = last'.value
                   /\ IsMaxOver1000(last'.value, NumericRaw(last'.files))]_vars

\* A read refreshed an entry that already held a reading.
C2_Witness ==
    /\ LastRead /\ last.index \in ValidIndexes
    /\ last.globs = 1 /\ last.outcome = "return"
    /\ temp_retrieved[LastPos] = now
    /\ gpu_temperature[LastPos] = <<52, 0>>
    /\ last.gapRead # {}

\* C3 (the placeholder is never reported): every value a read returns was
\* stored by a successful acquisition for that position.
C3_NeverPlaceholder ==
    (LastRead /\ last.index \in ValidIndexes /\ last.outcome = "return")
    => lastGood[LastPos] # {}

\* C4 (sensor not found): a read that globs and finds no temp*_input file
\* raises FileNotFoundError, returns no value and runs no read command.
C4_SensorNotFound ==
    (LastRead /\ last.globs = 1 /\ last.files = <<>>)
    => /\ last.outcome = "FileNotFoundError"
       /\ last.value = NoValue
       /\ last.runs = 0

C4_Witness ==
    /\ LastRead /\ last.globs = 1 /\ last.files = <<>>
    /\ last.outcome = "FileNotFoundError"

\* C5 (parse failure): an acquisition that read the sources, one of which
\* holds no decimal number (or nothing at all), raises ValueError and
\* returns no temperature.
C5_ParseFailure ==
    (/\ LastRead /\ last.index \in ValidIndexes
     /\ last.globs = 1 /\ last.runs = 1 /\ grep_installed
     /\ \E k \in 1..Len(last.files) : last.files[k] \notin Numeric)
    => (last.outcome = "ValueError" /\ last.value = NoValue)

\* C6 (aggregation): a successful acquisition from sources that all hold a
\* milli-degree number stores and returns the largest of them / 1000,
\* whatever their order.
C6_Aggregation ==
    (/\ LastRead /\ last.globs = 1 /\ last.outcome = "return"
     /\ \A k \in 1..Len(last.files) : last.files[k] \in Numeric)
    => /\ IsMaxOver1000(gpu_temperature[LastPos], NumericRaw(last.files))
       /\ last.value = gpu_temperature[LastPos]

\* The example of the specification: [45000, 52000, 38000] gives 52.0.
C6_Witness ==
    /\ LastRead /\ last.globs = 1 /\ last.outcome = "return"
    /\ last.files = <<S45000, S52000, S38000>>
    /\ last.value = <<52, 0>>

\* C7 (end to end, single-source devices): gpu_device_ids=0,1, polling=2,
\* each device exposing one file holding 60000: an acquisition returns 60.0
\* and a read within the polling interval returns 60.0 without I/O.
C7_EndToEnd ==
    (/\ cfg = <<"0", ",", "1">> /\ polling = 2
     /\ LastRead /\ last.index \in ValidIndexes)
    => /\ (last.globs = 1 /\ last.files = <<S60000>>)
          => (last.outcome = "return" /\ last.value = <<60, 0>>)
       /\ (last.globs = 0 /\ lastTry[LastPos] # {})
          => (last.outcome = "return" /\ last.value = <<60, 0>>)

\* C8 (backpressure): an acquisition attempt for a position comes at least
\* polling after the previous attempt for that position, failed or not.
C8_Backpressure ==
    (LastRead /\ last.index \in ValidIndexes /\ last.globs = 1)
    => \A g \in last.gapTry : g >= polling

\* C8 as amended: an acquisition attempt for a position comes at least
\* polling after the last attempt for that position whose read command
\* completed.
C8_BackpressureAfterRead ==
    (LastRead /\ last.globs = 1) => \A g \in last.gapRead : g >= polling

C8_Witness ==
    /\ LastRead /\ last.globs = 1
    /\ last.gapRead # {} /\ last.gapTry # {}

\* C9 (index out of range): a read with an index outside 0..N-1, negative
\* ones included, raises IndexError and performs no I/O.
C9_IndexOutOfRange ==
    (LastRead /\ last.index \notin ValidIndexes)
    => (last.outcome = "IndexError" /\ last.globs = 0 /\ last.runs = 0)

\* Some token of the option value is an integer outside [0,100].
OutOfRangeToken(s) ==
    \E k \in 1..Len(Tokens(s)) :
        /\ IsInt(Tokens(s)[k])
        /\ ParseInt(Tokens(s)[k]) \notin MinGpuId..MaxGpuId

\* C10 (device-id range): construction from an option value with an integer
\* token outside [0,100] raises ValueError before the base controller is
\* initialised; no active zone holds an out-of-range device id.
C10_DeviceIdRange ==
    /\ (state # "UNVALIDATED" /\ OutOfRangeToken(cfg))
       => (state = "FAILED" /\ error = "ValueError" /\ base_count = NotInit)
    /\ state = "ACTIVE"
       => \A k \in 1..Len(gpu_device_ids) :
              gpu_device_ids[k] \in MinGpuId..MaxGpuId

\* Construction failed on the range check: every token is an integer.
C10_Witness ==
    /\ state = "FAILED" /\ OutOfRangeToken(cfg)
    /\ \A k \in 1..Len(Tokens(cfg)) : IsInt(Tokens(cfg)[k])
    /\ Len(Tokens(cfg)) > 1

\* C11 (cache shape): in every active zone, after any reads, the device-id
\* list, temp_retrieved and gpu_temperature have one length, the sensor count
\* FanController.__init__ was given.
C11_CacheShape ==
    state = "ACTIVE"
    => /\ Len(temp_retrieved) = Len(gpu_device_ids)
       /\ Len(gpu_temperature) = Len(gpu_device_ids)
       /\ base_count = {Len(gpu_device_ids)}

\* Both positions of a two-sensor zone were read: one stored a value, the
\* last read failed.
C11_Witness ==
    /\ state = "ACTIVE" /\ Len(gpu_device_ids) = 2
    /\ \E k \in 1..2 : lastGood[k] # {}
    /\ LastRead /\ last.globs = 1 /\ last.outcome = "ValueError"

\* C12 (no retry, no fallback): a call globs at most once and runs the read
\* command at most once; a call that globbed returns only the value its own
\* acquisition stored at that moment, otherwise it raises and returns no
\* value.
C12_NoRetry ==
    LastRead
    => /\ last.globs \in {0, 1} /\ last.runs \in {0, 1} /\ last.runs <= last.globs
       /\ last.globs = 1
          => \/ /\ last.outcome = "return"
                /\ last.files # <<>> /\ grep_installed
                /\ lastGood[LastPos] =
                       {[t |-> temp_retrieved[LastPos], value |-> last.value]}
                /\ lastTry[LastPos] = {temp_retrieved[LastPos]}
             \/ /\ last.outcome \in
                       {"FileNotFoundError", "ValueError", "IndexError"}
                /\ last.value = NoValue

\* A failed acquisition on an entry that holds an earlier reading: the call
\* raised instead of returning that reading.
C12_Witness ==
    /\ LastRead /\ last.index \in ValidIndexes /\ last.globs = 1
    /\ last.outcome = "ValueError"
    /\ lastGood[LastPos] # {}

\* C13 (failed reads do not touch the cache): a read of index i that ends in
\* any error leaves temp_retrieved[i] and gpu_temperature[i] as they were.
C13_FailedReadKeepsCache ==
    [][\A i \in ValidIndexes :
          (ReadOf(i) /\ last'.outcome # "return")
          => /\ temp_retrieved'[i + 1] = temp_retrieved[i + 1]
             /\ gpu_temperature'[i + 1] = gpu_temperature[i + 1]]_vars

\* C14 (timestamp and value agree): every cache entry is either the initial
\* pair (0, 0) with no successful acquisition behind it, or the time and the
\* value of the most recent successful acquisition for that position.
C14_StampValueConsistent ==
    state = "ACTIVE"
    => \A k \in 1..Len(temp_retrieved) :
          \/ /\ lastGood[k] = {}
             /\ temp_retrieved[k] = 0
             /\ gpu_temperature[k] = Zero
          \/ lastGood[k] = {[t |-> temp_retrieved[k], value |-> gpu_temperature[k]]}

\* C15 (sensor ids unique): no device id occurs twice in the list of an
\* active zone.
C15_UniqueIds ==
    state = "ACTIVE"
    => \A a, b \in 1..Len(gpu_device_ids) :
          a # b => gpu_device_ids[a] # gpu_device_ids[b]

\* The option value as the claims about tokens read it: blanks trimmed, runs
\* of spaces squeezed, then cut at every comma if there is one, otherwise at
\* every space.  A chunk is <<first, last>>, last = first - 1 when empty.
Normalised(s) == SqueezeSpaces(Strip(s))

CutAt(n) == IF \E k \in 1..Len(n) : n[k] = "," THEN "," ELSE " "

Chunks(n) ==
    {c \in (1..(Len(n) + 1)) \X (0..Len(n)) :
        /\ c[2] >= c[1] - 1
        /\ c[1] = 1 \/ n[c[1] - 1] = CutAt(n)
        /\ c[2] = Len(n) \/ n[c[2] + 1] = CutAt(n)
        /\ \A k \in c[1]..c[2] : n[k] # CutAt(n)}

ChunkText(n, c) == SubSeq(n, c[1], c[2])

ChunkRank(n, c) == Cardinality({e \in Chunks(n) : e[1] <= c[1]})

\* Integer text: blanks, an optional sign, one or more digits, blanks.
IntegerText(t) ==
    \E a, b \in 1..Len(t) :
        /\ a <= b
        /\ \A k \in 1..(a - 1) : t[k] = " "
        /\ \A k \in (b + 1)..Len(t) : t[k] = " "
        /\ t[a] \in Digits \cup {"-", "+"}
        /\ t[b] \in Digits
        /\ \A k \in (a + 1)..b : t[k] \in Digits

BadToken(s) ==
    \E c \in Chunks(Normalised(s)) : ~IntegerText(ChunkText(Normalised(s), c))

\* C16 (token validation fails fast): construction from an option value with
\* a token that is not an integer (an empty token included) raises ValueError
\* before any list is assigned or the base controller initialised; an active
\* zone holds one id per token, in order, none dropped or defaulted, and its
\* list is not empty.
C16_BadTokenAborts ==
    /\ (state # "UNVALIDATED" /\ BadToken(cfg))
       => /\ state = "FAILED" /\ error = "ValueError"
          /\ base_count = NotInit /\ gpu_device_ids = <<>>
    /\ state = "ACTIVE"
       => /\ gpu_device_ids # <<>>
          /\ Len(gpu_device_ids) = Cardinality(Chunks(Normalised(cfg)))
          /\ \A c \in Chunks(Normalised(cfg)) :
                gpu_device_ids[ChunkRank(Normalised(cfg), c)]
                    = ParseInt(ChunkText(Normalised(cfg), c))

\* Construction failed on an option value with an empty token next to an
\* integer one.
C16_Witness ==
    /\ state = "FAILED" /\ error = "ValueError"
    /\ \E c, e \in Chunks(Normalised(cfg)) :
          /\ c[2] = c[1] - 1
          /\ IntegerText(ChunkText(Normalised(cfg), e))

\* str(n) of a natural number.
DigitChar(d) == CHOOSE c \in Digits : DigitVal(c) = d

RECURSIVE Dec(_)
Dec(n) ==
    IF n < 10 THEN <<DigitChar(n)>>
    ELSE Dec(n \div 10) \o <<DigitChar(n % 10)>>

\* ",".join(str(n) for n in L)
RECURSIVE CommaJoin(_)
CommaJoin(L) ==
    IF Len(L) = 1 THEN Dec(L[1])
    ELSE Dec(L[1]) \o <<",">> \o CommaJoin(Tail(L))

\* The maximal runs of digits of s, as <<first, last>>.
DigitRuns(s) ==
    {r \in (1..Len(s)) \X (1..Len(s)) :
        /\ r[1] <= r[2]
        /\ \A k \in r[1]..r[2] : s[k] \in Digits
        /\ r[1] = 1 \/ s[r[1] - 1] \notin Digits
        /\ r[2] = Len(s) \/ s[r[2] + 1] \notin Digits}

NthRun(s, k) ==
    CHOOSE r \in DigitRuns(s) :
        Cardinality({e \in DigitRuns(s) : e[1] <= r[1]}) = k

\* s is L written with spaces: nothing but digits and spaces, and its runs
\* of digits are str(L[1]), ..., str(L[n]) in order (so at least one space
\* between neighbours, any number of spaces around and between).
SpaceWritten(s, L) ==
    /\ \A k \in 1..Len(s) : s[k] \in Digits \cup {" "}
    /\ Cardinality(DigitRuns(s)) = Len(L)
    /\ \A k \in 1..Len(L) :
          SubSeq(s, NthRun(s, k)[1], NthRun(s, k)[2]) = Dec(L[k])

\* The only list s can be a writing of: the values of its runs of digits.
Written(s) ==
    [k \in 1..Cardinality(DigitRuns(s)) |->
        DecVal(SubSeq(s, NthRun(s, k)[1], NthRun(s, k)[2]))]

\* C17 (delimiter round trip): when the option value is a non-empty list L of
\* integers in [0,100] written comma-separated, or space-separated with any
\* number of spaces between and around the numbers, construction succeeds and
\* gpu_device_ids = L, in order.
C17_DelimiterRoundTrip ==
    LET L == Written(cfg)
    IN  ( /\ state # "UNVALIDATED"
          /\ L # <<>>
          /\ \A k \in 1..Len(L) : L[k] \in MinGpuId..MaxGpuId
          /\ cfg = CommaJoin(L) \/ SpaceWritten(cfg, L) )
        => (state = "ACTIVE" /\ error = "" /\ gpu_device_ids = L)

\* A two-element list written with a doubled space was constructed.
C17_Witness ==
    /\ state = "ACTIVE" /\ Len(gpu_device_ids) = 2
    /\ SpaceWritten(cfg, gpu_device_ids)
    /\ \E k \in 1..(Len(cfg) - 1) : cfg[k] = " " /\ cfg[k + 1] = " "

\* C18 (per-index isolation): a read of index i, whether a cache hit, a
\* successful acquisition or a failure, changes no cache entry of another
\* position and never gpu_device_ids or polling; this holds as well when the
\* two positions name the same device.
C18_Isolation ==
    [][\A i \in ValidIndexes :
          ReadOf(i)
          => /\ \A k \in 1..Len(temp_retrieved) :
                   k # i + 1
                   => /\ temp_retrieved'[k] = temp_retrieved[k]
                      /\ gpu_temperature'[k] = gpu_temperature[k]
             /\ Len(temp_retrieved') = Len(temp_retrieved)
             /\ Len(gpu_temperature') = Len(gpu_temperature)
             /\ gpu_device_ids' = gpu_device_ids
             /\ polling' = polling]_vars

\* Two positions of one device: position 0 stored a reading, position 1
\* still holds its initial entry.
C18_Witness ==
    /\ state = "ACTIVE" /\ gpu_device_ids = <<1, 1>>
    /\ LastRead /\ last.index = 0 /\ last.globs = 1 /\ last.outcome = "return"
    /\ temp_retrieved[1] > 0 /\ gpu_temperature[1] # Zero
    /\ temp_retrieved[2] = 0 /\ gpu_temperature[2] = Zero

=============================================================================
